---- MODULE Spec2Model ----
(***************************************************************************)
(* Debug Cleanup Pro: the statement scanners of src/parser.js               *)
(* (DebugStatementParser) and the text surgeon of src/extension.js          *)
(* (CodeCleaner).                                                           *)
(*                                                                          *)
(* A text is a sequence of lexemes, each standing for one run of            *)
(* characters of the source text; offsets count lexemes:                    *)
(*   "L" console.log      "E" console.error    "P" print                    *)
(*   "D" debugger         "S" System.out.println   "T" console.table        *)
(*   "x" an identifier character                                            *)
(*   "(" ")" "," ";"      " " a blank          "\n" a line terminator       *)
(* Word lexemes written without a separator run together into one           *)
(* identifier or member chain, as their characters do: <<"x","P">> is the   *)
(* identifier xprint, <<"L","x">> is console.logx.                          *)
(***************************************************************************)
EXTENDS Integers, Sequences, FiniteSets, TLC

NL == "\n"
SP == " "
WordChars == {"L", "E", "T", "P", "D", "S", "x"}
ConsoleChars == {"L", "E", "T"}
Whitespace == {SP, NL}

Min(a, b) == IF a < b THEN a ELSE b
Max(a, b) == IF a > b THEN a ELSE b

(***************************************************************************)
(* String primitives of the JavaScript runtime, offsets 0-based.           *)
(***************************************************************************)
\* String.prototype.substring(a, b) for a <= b: both indices clamped to the length.
Substring(s, a, b) == SubSeq(s, Min(Max(a, 0), Len(s)) + 1, Min(Max(b, 0), Len(s)))

\* String.prototype.substring(a): to the end of the string.
SubstringFrom(s, a) == Substring(s, a, Len(s))

\* String.prototype.trim() === '': the string holds white space only.
IsBlank(s) == \A i \in 1..Len(s) : s[i] \in Whitespace

\* String.prototype.includes for a one-lexeme needle.
Includes(s, c) == \E i \in 1..Len(s) : s[i] = c

\* String.prototype.split('\n').
RECURSIVE Split(_)
Split(s) ==
    IF ~Includes(s, NL) THEN <<s>>
    ELSE LET i == CHOOSE k \in 1..Len(s) : s[k] = NL /\ \A j \in 1..(k - 1) : s[j] # NL
         IN  <<SubSeq(s, 1, i - 1)>> \o Split(SubSeq(s, i + 1, Len(s)))

\* Array.prototype.join('\n').
RECURSIVE Join(_)
Join(ls) ==
    IF Len(ls) = 0 THEN <<>>
    ELSE IF Len(ls) = 1 THEN ls[1]
    ELSE ls[1] \o <<NL>> \o Join(Tail(ls))

\* The end (exclusive, 0-based) of the longest run of white space that starts at offset p.
RECURSIVE SkipWs(_, _)
SkipWs(s, p) == IF p < Len(s) /\ s[p + 1] \in Whitespace THEN SkipWs(s, p + 1) ELSE p

\* The number of line terminators in s.
RECURSIVE CountNL(_)
CountNL(s) == IF Len(s) = 0 THEN 0 ELSE (IF Head(s) = NL THEN 1 ELSE 0) + CountNL(Tail(s))

(***************************************************************************)
(* The structural parser (@babel/parser, called at parser.js:18) on the    *)
(* lexemes above: tokens, then statements with automatic semicolon         *)
(* insertion, sequence expressions, call chains, parenthesised expressions *)
(* and argument lists with an optional trailing comma.                     *)
(***************************************************************************)
\* The end (exclusive) of the run of word lexemes that starts at offset p.
RECURSIVE WordEnd(_, _)
WordEnd(s, p) == IF p < Len(s) /\ s[p + 1] \in WordChars THEN WordEnd(s, p + 1) ELSE p

\* A line terminator lies in the white space just before offset p.
NewlineBefore(s, p) ==
    \E j \in 1..p : s[j] = NL /\ \A k \in j..p : s[k] \in Whitespace

\* The token that starts at offset p (p is not white space). A word run of one lexeme
\* is that name; a longer run is another identifier or member chain.
TokenAt(s, p) ==
    LET c == s[p + 1]
        e == IF c \in WordChars THEN WordEnd(s, p) ELSE p + 1
        kind == IF c \notin WordChars THEN c
                ELSE IF e - p > 1 THEN "ident"
                ELSE IF c \in ConsoleChars THEN "console"
                ELSE IF c = "P" THEN "print"
                ELSE IF c = "D" THEN "debugger"
                ELSE IF c = "S" THEN "system.out"
                ELSE "ident"
    IN  [kind |-> kind, start |-> p, end |-> e, nl |-> NewlineBefore(s, p)]

RECURSIVE Tokenize(_, _)
Tokenize(s, p) ==
    LET q == SkipWs(s, p)
    IN  IF q >= Len(s) THEN <<>>
        ELSE LET tok == TokenAt(s, q) IN <<tok>> \o Tokenize(s, tok.end)

Kind(toks, p) == IF p <= Len(toks) THEN toks[p].kind ELSE "eof"

\* A parse result: the next token, the flagged nodes in traversal order (each a
\* node.start, node.end and the type handleCallExpression gives it), and whether the
\* expression is a bare callee that isConsoleCall, isPrintCall or isSystemOutCall
\* accepts.
ParseFail == [ok |-> FALSE, pos |-> 0, found |-> <<>>, callee |-> "none"]
ParseOk(p, found, callee) == [ok |-> TRUE, pos |-> p, found |-> found, callee |-> callee]

RECURSIVE ParseExpression(_, _)
RECURSIVE ParseMaybeAssign(_, _)
RECURSIVE ParseExprAtom(_, _)
RECURSIVE ParseSubscripts(_, _, _, _, _)
RECURSIVE ParseCallArgs(_, _)
RECURSIVE ParseProgram(_, _)

\* The flagged nodes of what was parsed first, followed by those of the rest r.
ParseList(found, r) ==
    IF r.ok THEN ParseOk(r.pos, found \o r.found, "none") ELSE ParseFail

\* A parenthesised expression e once parsed: the closing parenthesis must follow;
\* parentheses make no node.
ParseParen(toks, e) ==
    IF e.ok /\ Kind(toks, e.pos) = ")" THEN ParseOk(e.pos + 1, e.found, e.callee) ELSE ParseFail

\* Identifier, member chain or parenthesised expression.
ParseExprAtom(toks, p) ==
    LET k == Kind(toks, p)
    IN  IF k \in {"console", "print", "system.out"} THEN ParseOk(p + 1, <<>>, k)
        ELSE IF k = "ident" THEN ParseOk(p + 1, <<>>, "none")
        ELSE IF k = "(" THEN ParseParen(toks, ParseExpression(toks, p + 1))
        ELSE ParseFail

\* The argument list after its argument a: a closing parenthesis, or a comma and the
\* rest of the list (which may be empty: a trailing comma).
ParseArgsRest(toks, a) ==
    IF ~a.ok THEN ParseFail
    ELSE IF Kind(toks, a.pos) = ")" THEN ParseOk(a.pos + 1, a.found, "none")
    ELSE IF Kind(toks, a.pos) = "," THEN ParseList(a.found, ParseCallArgs(toks, a.pos + 1))
    ELSE ParseFail

\* The arguments of a call, after its opening parenthesis.
ParseCallArgs(toks, p) ==
    IF Kind(toks, p) = ")" THEN ParseOk(p + 1, <<>>, "none")
    ELSE ParseArgsRest(toks, ParseMaybeAssign(toks, p))

\* The CallExpression node of a call whose arguments args are parsed: it runs from
\* offset `start` to its closing parenthesis, and the traversal visits it before its
\* callee and its arguments.
ParseCall(toks, start, callee, found, args) ==
    IF ~args.ok THEN ParseFail
    ELSE ParseSubscripts(toks, args.pos, start, "none",
             (IF callee # "none"
              THEN <<[type |-> callee, start |-> start, end |-> toks[args.pos - 1].end]>>
              ELSE <<>>) \o found \o args.found)

\* Calls applied to the expression that starts at offset `start`.
ParseSubscripts(toks, p, start, callee, found) ==
    IF Kind(toks, p) = "("
    THEN ParseCall(toks, start, callee, found, ParseCallArgs(toks, p + 1))
    ELSE ParseOk(p, found, callee)

\* The call chain on the atom a that starts at token p.
ParseCallChain(toks, p, a) ==
    IF ~a.ok THEN ParseFail
    ELSE ParseSubscripts(toks, a.pos, toks[p].start, a.callee, a.found)

ParseMaybeAssign(toks, p) == ParseCallChain(toks, p, ParseExprAtom(toks, p))

\* A sequence expression after its first assignment expression a.
ParseSequence(toks, a) ==
    IF ~a.ok THEN ParseFail
    ELSE IF Kind(toks, a.pos) = "," THEN ParseList(a.found, ParseExpression(toks, a.pos + 1))
    ELSE a

\* A sequence expression: assignment expressions separated by commas.
ParseExpression(toks, p) == ParseSequence(toks, ParseMaybeAssign(toks, p))

\* The statement terminator: a semicolon, or one inserted at a line break or at the end.
CanInsertSemicolon(toks, p) == p > Len(toks) \/ toks[p].nl

\* An expression statement once its expression e is parsed.
ParseExpressionStatement(toks, e) ==
    IF ~e.ok THEN ParseFail
    ELSE IF Kind(toks, e.pos) = ";" THEN ParseOk(e.pos + 1, e.found, "none")
    ELSE IF CanInsertSemicolon(toks, e.pos) THEN ParseOk(e.pos, e.found, "none")
    ELSE ParseFail

ParseStatement(toks, p) ==
    LET k == Kind(toks, p)
    IN  IF k = ";" THEN ParseOk(p + 1, <<>>, "none")
        ELSE IF k = "debugger" THEN
            IF Kind(toks, p + 1) = ";"
            THEN ParseOk(p + 2, <<[type |-> "debugger", start |-> toks[p].start,
                                   end |-> toks[p + 1].end]>>, "none")
            ELSE IF CanInsertSemicolon(toks, p + 1)
            THEN ParseOk(p + 1, <<[type |-> "debugger", start |-> toks[p].start,
                                   end |-> toks[p].end]>>, "none")
            ELSE ParseFail
        ELSE ParseExpressionStatement(toks, ParseExpression(toks, p))

\* The statements after the statement st.
ParseProgramRest(toks, st) ==
    IF ~st.ok THEN ParseFail ELSE ParseList(st.found, ParseProgram(toks, st.pos))

ParseProgram(toks, p) ==
    IF p > Len(toks) THEN ParseOk(p, <<>>, "none")
    ELSE ParseProgramRest(toks, ParseStatement(toks, p))

\* parse(code, ...) followed by traverse(ast, ...): the flagged nodes, or a thrown error.
Parse(code) == ParseProgram(Tokenize(code, 0), 1)

(***************************************************************************)
(* DebugStatementParser (src/parser.js).                                   *)
(***************************************************************************)
\* The loop with lineStart advanced by the line's length only, the line terminator
\* not counted.
RECURSIVE FindLineNoTerminator(_, _, _, _)
FindLineNoTerminator(lines, start, i, lineStart) ==
    IF i > Len(lines) THEN [line |-> 1, lineStart |-> lineStart]
    ELSE IF start >= lineStart /\ start <= lineStart + Len(lines[i])
         THEN [line |-> i, lineStart |-> lineStart]
         ELSE FindLineNoTerminator(lines, start, i + 1, lineStart + Len(lines[i]))

\* The loop over code.split('\n') that finds the line holding offset start
\* (parser.js:121-128 and 164-172): the 1-based line and the offset of its first
\* character; line 1 and the running offset when no line holds it.
RECURSIVE FindLine(_, _, _, _)
FindLine(lines, start, i, lineStart) ==
    IF i > Len(lines) THEN [line |-> 1, lineStart |-> lineStart]
    ELSE IF start >= lineStart /\ start <= lineStart + Len(lines[i])
         THEN [line |-> i, lineStart |-> lineStart]
         ELSE FindLine(lines, start, i + 1, lineStart + Len(lines[i]) + 1)

MakeStatement(type, code, start, end) ==
    LET at == FindLine(Split(code), start, 1, 0)
    IN  [type |-> type, line |-> at.line, column |-> start - at.lineStart,
         start |-> start, end |-> end, text |-> Substring(code, start, end)]

\* The end moved past the white space after the node even when no semicolon follows it.
ExtendEndOverWhitespace(code, end) ==
    LET p == SkipWs(code, end)
    IN  IF p < Len(code) /\ code[p + 1] = ";" THEN p + 1 ELSE p

\* The end moved one offset further than the semicolon's own end.
ExtendEndBeyond(code, end) ==
    LET p == SkipWs(code, end)
    IN  IF p < Len(code) /\ code[p + 1] = ";" THEN p + 2 ELSE end

\* afterStatement.match(/^[\s]*;/): the end moved past white space and one semicolon.
ExtendEnd(code, end) ==
    LET p == SkipWs(code, end)
    IN  IF p < Len(code) /\ code[p + 1] = ";" THEN p + 1 ELSE end

addDebugStatement(node, code) ==
    MakeStatement(node.type, code, node.start, ExtendEnd(code, node.end))

\* /\s*;?\s*/ matched at offset p: the end of the match.
TerminatorEnd(code, p) ==
    LET q == SkipWs(code, p)
    IN  IF q < Len(code) /\ code[q + 1] = ";" THEN SkipWs(code, q + 1) ELSE q

\* The offset of the first ")" at or after offset p, or -1.
FirstClose(code, p) ==
    IF \E i \in (p + 1)..Len(code) : code[i] = ")"
    THEN (CHOOSE i \in (p + 1)..Len(code) :
              code[i] = ")" /\ \A j \in (p + 1)..(i - 1) : code[j] # ")") - 1
    ELSE -1

\* The regular expressions of fallbackRegexParse matched at offset p: the end of the
\* match, or -1. A call pattern is the name, \s*, "(", [^)]*, ")" and the terminator;
\* the debugger pattern is the keyword and the terminator. No pattern asks for a word
\* boundary before the name.
PatternHeads(type) ==
    IF type = "console" THEN ConsoleChars
    ELSE IF type = "print" THEN {"P"}
    ELSE IF type = "system.out" THEN {"S"}
    ELSE IF type = "debugger" THEN {"D"}
    ELSE {}

MatchEnd(code, p, type) ==
    IF p >= Len(code) \/ code[p + 1] \notin PatternHeads(type) THEN -1
    ELSE IF type = "debugger" THEN TerminatorEnd(code, p + 1)
    ELSE LET open == SkipWs(code, p + 1)
         IN  IF open >= Len(code) \/ code[open + 1] # "(" THEN -1
             ELSE LET close == FirstClose(code, open + 1)
                  IN  IF close < 0 THEN -1 ELSE TerminatorEnd(code, close + 1)

\* while ((match = regex.exec(code)) !== null): the matches of one pattern from offset
\* `from` on, left to right, each search resuming at the end of the match before.
RECURSIVE ExecAll(_, _, _)
ExecAll(code, type, from) ==
    LET hits == {p \in from..(Len(code) - 1) : MatchEnd(code, p, type) >= 0}
    IN  IF hits = {} THEN <<>>
        ELSE LET p == CHOOSE h \in hits : \A g \in hits : h <= g
                 e == MatchEnd(code, p, type)
             IN  <<MakeStatement(type, code, p, e)>> \o ExecAll(code, type, e)

\* Array.prototype.sort with (a, b) => a.start - b.start: stable, ascending.
RECURSIVE InsertAsc(_, _)
InsertAsc(sorted, st) ==
    IF Len(sorted) = 0 THEN <<st>>
    ELSE IF sorted[Len(sorted)].start <= st.start THEN Append(sorted, st)
    ELSE Append(InsertAsc(SubSeq(sorted, 1, Len(sorted) - 1), st), sorted[Len(sorted)])

RECURSIVE SortAsc(_)
SortAsc(sts) ==
    IF Len(sts) = 0 THEN <<>>
    ELSE InsertAsc(SortAsc(SubSeq(sts, 1, Len(sts) - 1)), sts[Len(sts)])

fallbackRegexParse(code) ==
    SortAsc(ExecAll(code, "console", 0) \o ExecAll(code, "print", 0)
            \o ExecAll(code, "system.out", 0) \o ExecAll(code, "debugger", 0))

\* The body of parseCode on the outcome r of parse and traverse: the try block's
\* statements, or the catch block's return of the fallback.
ParsedOrFallback(code, r) ==
    IF r.ok THEN [i \in 1..Len(r.found) |-> addDebugStatement(r.found[i], code)]
    ELSE fallbackRegexParse(code)

\* The statements the traversal collects when the text parses.
CollectStatements(code) ==
    LET found == Parse(code).found
    IN  [i \in 1..Len(found) |-> addDebugStatement(found[i], code)]

\* What parseCode returns when the catch block yields this.debugStatements instead of
\* the result of the fallback.
parseCodeNoFallback(code) ==
    IF Parse(code).ok THEN CollectStatements(code) ELSE <<>>

parseCode(code) == ParsedOrFallback(code, Parse(code))

\* A parseCode call whose catch block throws the error on to the caller.
parseCodeRethrows(code) ==
    [threw |-> ~Parse(code).ok,
     warning |-> IF Parse(code).ok THEN "none" ELSE "Failed to parse file",
     returned |-> IF Parse(code).ok THEN CollectStatements(code) ELSE <<>>]

\* A parseCode call as its caller sees it: whether an error leaves it, the warning its
\* catch block writes (the message of the error parse threw), and what it returns.
parseCodeCall(code) ==
    [threw |-> FALSE,
     warning |-> IF Parse(code).ok THEN "none" ELSE "Failed to parse file",
     returned |-> parseCode(code)]

\* An array literal or new array: one more object, empty, whose identity is its index.
NewArray(h) == Append(h, <<>>)

\* parseCode without the assignment this.debugStatements = [] at its start: the
\* statements are pushed onto the array the instance already holds.
parseCodeOnSameArray(h, this, code) ==
    IF Parse(code).ok
    THEN [heap |-> [h EXCEPT ![this] = @ \o parseCode(code)], this |-> this, returned |-> this]
    ELSE [heap |-> Append(h, parseCode(code)), this |-> this, returned |-> Len(h) + 1]

\* parseCode on the arrays: this.debugStatements becomes a new array, which receives
\* the statements of the traversal and is returned; when parse throws, the array that
\* fallbackRegexParse builds is returned instead.
parseCodeOn(h, this, code) ==
    IF Parse(code).ok
    THEN [heap |-> [NewArray(h) EXCEPT ![Len(h) + 1] = @ \o parseCode(code)],
          this |-> Len(h) + 1, returned |-> Len(h) + 1]
    ELSE [heap |-> Append(NewArray(h), parseCode(code)),
          this |-> Len(h) + 1, returned |-> Len(h) + 2]

\* The command around parseCode (try / catch with its own fallback): the branch taken,
\* the statements it goes on with, and the notice of its catch branch.
ScanCommand(code, call) ==
    [threw |-> call.threw, warning |-> call.warning,
     branch |-> IF call.threw THEN "catch" ELSE "try",
     notice |-> IF call.threw THEN "Using fallback regex parsing..." ELSE "none",
     statements |-> IF call.threw THEN fallbackRegexParse(code) ELSE call.returned]

(***************************************************************************)
(* CodeCleaner (src/extension.js).                                         *)
(***************************************************************************)
\* statement.text.includes('console.<method>') && !this.config.removeConsole<Method>
\* for the two console methods of the lexemes, then the flag of the statement's type.
KeepStatement(statement, cfg) ==
    IF statement.type = "console" THEN
        ~(  (Includes(statement.text, "L") /\ ~cfg.removeConsoleLog)
         \/ (Includes(statement.text, "E") /\ ~cfg.removeConsoleError))
    ELSE IF statement.type = "debugger" THEN cfg.removeDebugger
    ELSE IF statement.type = "print" THEN cfg.removePrint
    ELSE IF statement.type = "system.out" THEN cfg.removeSystemOut
    ELSE TRUE

RECURSIVE filterStatementsByConfig(_, _)
filterStatementsByConfig(sts, cfg) ==
    IF Len(sts) = 0 THEN <<>>
    ELSE (IF KeepStatement(Head(sts), cfg) THEN <<Head(sts)>> ELSE <<>>)
         \o filterStatementsByConfig(Tail(sts), cfg)

\* Array.prototype.sort with (a, b) => b.start - a.start: stable, descending.
RECURSIVE InsertDesc(_, _)
InsertDesc(sorted, st) ==
    IF Len(sorted) = 0 THEN <<st>>
    ELSE IF sorted[Len(sorted)].start >= st.start THEN Append(sorted, st)
    ELSE Append(InsertDesc(SubSeq(sorted, 1, Len(sorted) - 1), st), sorted[Len(sorted)])

RECURSIVE SortDesc(_)
SortDesc(sts) ==
    IF Len(sts) = 0 THEN <<>>
    ELSE InsertDesc(SortDesc(SubSeq(sts, 1, Len(sts) - 1)), sts[Len(sts)])

\* The loop of analyzeStatementContext: the 0-based line holding offset start and the
\* offset of its first character; line 0 at offset 0 when no line holds it.
RECURSIVE FindContextLine(_, _, _, _)
FindContextLine(lines, start, i, currentPos) ==
    IF i > Len(lines) THEN [lineNumber |-> 0, lineStart |-> 0]
    ELSE IF start >= currentPos /\ start < currentPos + Len(lines[i]) + 1
         THEN [lineNumber |-> i - 1, lineStart |-> currentPos]
         ELSE FindContextLine(lines, start, i + 1, currentPos + Len(lines[i]) + 1)

analyzeStatementContext(code, statement) ==
    LET lines == Split(code)
        at == FindContextLine(lines, statement.start, 1, 0)
        line == lines[at.lineNumber + 1]
        beforeInLine == Substring(line, 0, statement.start - at.lineStart)
        afterInLine == SubstringFrom(line, statement.end - at.lineStart)
    IN  [lineNumber |-> at.lineNumber, lineStart |-> at.lineStart, line |-> line,
         beforeInLine |-> beforeInLine, afterInLine |-> afterInLine,
         isOnOwnLine |-> IsBlank(beforeInLine) /\ IsBlank(afterInLine),
         isAtLineStart |-> IsBlank(beforeInLine),
         isAtLineEnd |-> IsBlank(afterInLine)]

\* The text has no "\r" lexeme, so after.startsWith('\r\n') is never taken.
removeEntireLine(before, after) ==
    LET beforeLines == Split(before)
        popped == SubSeq(beforeLines, 1, Len(beforeLines) - 1)
    IN  [before |-> IF IsBlank(beforeLines[Len(beforeLines)])
                    THEN Join(popped) \o (IF Len(popped) > 0 THEN <<NL>> ELSE <<>>)
                    ELSE before,
         after |-> IF Len(after) > 0 /\ after[1] = NL THEN SubstringFrom(after, 1) ELSE after]

\* before.replace(/[,;]\s*$/, ''): a comma or semicolon that only white space follows.
cleanLeadingCommaOrSemicolon(before) ==
    LET nonWs == {i \in 1..Len(before) : before[i] \notin Whitespace}
        last == IF nonWs = {} THEN 0 ELSE CHOOSE i \in nonWs : \A j \in nonWs : j <= i
    IN  IF last > 0 /\ before[last] \in {",", ";"} THEN SubSeq(before, 1, last - 1) ELSE before

\* after.replace(/^\s*,/, ''): leading white space and one comma.
cleanTrailingCommaOrSemicolon(after) ==
    LET p == SkipWs(after, 0)
    IN  IF p < Len(after) /\ after[p + 1] = "," THEN SubstringFrom(after, p + 1) ELSE after

\* removeStatement cutting no further than the end of the line the statement starts on.
removeStatementOnItsLine(code, statement) ==
    LET context == analyzeStatementContext(code, statement)
        lineEnd == context.lineStart + Len(context.line)
        before == Substring(code, 0, statement.start)
        after == SubstringFrom(code, Min(statement.end, lineEnd))
        whole == removeEntireLine(before, after)
    IN  IF context.isOnOwnLine THEN whole.before \o whole.after
        ELSE IF context.isAtLineStart THEN before \o cleanTrailingCommaOrSemicolon(after)
        ELSE IF context.isAtLineEnd THEN cleanLeadingCommaOrSemicolon(before) \o after
        ELSE cleanLeadingCommaOrSemicolon(before) \o cleanTrailingCommaOrSemicolon(after)

removeStatement(code, statement) ==
    LET before == Substring(code, 0, statement.start)
        after == SubstringFrom(code, statement.end)
        context == analyzeStatementContext(code, statement)
        whole == removeEntireLine(before, after)
    IN  IF context.isOnOwnLine THEN whole.before \o whole.after
        ELSE IF context.isAtLineStart THEN before \o cleanTrailingCommaOrSemicolon(after)
        ELSE IF context.isAtLineEnd THEN cleanLeadingCommaOrSemicolon(before) \o after
        ELSE cleanLeadingCommaOrSemicolon(before) \o cleanTrailingCommaOrSemicolon(after)

\* code.replace(/(\n\s*){maxLines + 1,}/g, '\n'.repeat(maxLines)): a match starts at a
\* line terminator, takes the whole run of white space from there, and needs
\* maxLines + 1 line terminators in it.
Repeat(c, n) == [i \in 1..n |-> c]

RECURSIVE CollapseBlankLines(_, _)
CollapseBlankLines(s, maxLines) ==
    IF Len(s) = 0 THEN <<>>
    ELSE LET e == SkipWs(s, 0)
         IN  IF s[1] = NL /\ CountNL(SubSeq(s, 1, e)) >= maxLines + 1
             THEN Repeat(NL, maxLines) \o CollapseBlankLines(SubstringFrom(s, e), maxLines)
             ELSE <<s[1]>> \o CollapseBlankLines(Tail(s), maxLines)

\* code.replace(/[ \t]+$/gm, ''): the blanks at the end of every line.
RECURSIVE StripEnd(_, _)
StripEnd(s, drop) ==
    IF Len(s) > 0 /\ s[Len(s)] \in drop THEN StripEnd(SubSeq(s, 1, Len(s) - 1), drop) ELSE s

StripTrailingBlanks(s) ==
    LET lines == Split(s) IN Join([i \in 1..Len(lines) |-> StripEnd(lines[i], {SP})])

\* code.replace(/\n*$/, '\n'): the line terminators at the end become one.
EndWithNewline(s) == StripEnd(s, {NL}) \o <<NL>>

cleanWhitespace(code, maxLines) ==
    EndWithNewline(StripTrailingBlanks(CollapseBlankLines(code, maxLines)))

(***************************************************************************)
(* The run: one DebugStatementParser and one CodeCleaner built with a      *)
(* configuration, parseCode on a text, removeDebugStatements on its        *)
(* result, and parseCode again on the cleaned text.                        *)
(***************************************************************************)
MaxPieces == 3
MaxEmptyLines == 2

\* The fragments the input texts are put together from.
Pieces ==
    { <<"L", "(", "x", ")">>, <<"L", "(">>, <<"P", "(", "x", ")">>, <<"D">>,
      <<"x">>, <<"(">>, <<")">>, <<",">>, <<";">>, <<SP>>, <<NL>> }

RECURSIVE TextsOf(_)
TextsOf(k) ==
    IF k = 0 THEN {<<>>}
    ELSE LET shorter == TextsOf(k - 1)
         IN  shorter \cup {t \o piece : t \in shorter, piece \in Pieces}

\* Texts of the specification's scenarios and of the repository's tests, in lexemes.
\* Scenario 1: console.log('a'); const x=1; console.log('b');
Scenario1 == <<"L", "(", "x", ")", ";", SP, "x", ";", SP, "L", "(", "x", ")", ";">>
\* Scenario 3: const r = f(); console.log(r); return r;
Scenario3 == <<"x", ";", SP, "L", "(", "x", ")", ";", SP, "x", ";">>
\* 'should clean excessive blank lines': no debug statement, runs of 3 and 4 blank lines.
BlankLinesText == <<"x", NL, NL, NL, NL, SP, "x", ";", NL, NL, NL, NL, NL, "x">>
\* 'should handle maxEmptyLines configuration': a statement, then 3 blank lines.
MaxEmptyLinesText ==
    <<NL, "x", NL, SP, "L", "(", "x", ")", ";", NL, NL, NL, NL, SP, "x", ";", NL, "x">>
\* A console.log call that names console.error in its arguments, and the converse.
LogOfError == <<"L", "(", "E", ")", ";">>
ErrorOfLog == <<"E", "(", "L", ")", ";">>
\* 'should respect multiple console method configs': one call of each method.
LogAndError == <<"L", "(", "x", ")", ";", NL, "E", "(", "x", ")", ";">>
\* System.out.println(x);
SystemOutText == <<"S", "(", "x", ")", ";">>
\* A member access, a call on the next line and a parenthesised expression on the
\* line after it: console.log / console.log(x) / (x)
CallAcrossLines == <<"L", NL, "L", "(", "x", ")", NL, "(", "x", ")">>
\* Three statements on one line without blanks: x;console.log(x);x
NoBlanksLine == <<"x", ";", "L", "(", "x", ")", ";", "x">>
\* A call with a nested call in its arguments in a text with an unbalanced closing
\* bracket: console.log(f(x), x); )
NestedCallBroken == <<"L", "(", "x", "(", "x", ")", ",", "x", ")", ";", SP, ")">>
\* 'should handle multiline statements': the arguments of one call wrapped over lines.
MultilineText == <<"L", "(", NL, SP, "x", ",", NL, SP, "x", NL, ")", ";">>
\* The same call between other statements, one of them after it on its last line.
MultilineInCode ==
    <<"x", ";", NL, SP, "L", "(", NL, SP, "x", ",", NL, SP, "x", NL, ")", ";", SP, "x", ";",
      NL, "x">>
\* Scenario 2: a statement alone on its line, blank lines before it and after it.
Scenario2 == <<"x", NL, NL, NL, SP, "L", "(", "x", ")", ";", NL, NL, "x">>
\* A flagged call inside the arguments of another one, and a line after it:
\* console.log(print(x)) / x
NestedThenLine == <<"L", "(", "P", "(", "x", ")", ")", NL, "x">>
\* A call of a console method without a configuration flag: console.table(x);
TableText == <<"T", "(", "x", ")", ";">>
\* The same call with a console.log call in its arguments: console.table(console.log(x));
TableOfLog == <<"T", "(", "L", "(", "x", ")", ")", ";">>
ScenarioTexts ==
    {Scenario1, Scenario2, Scenario3, BlankLinesText, MaxEmptyLinesText, LogOfError,
     ErrorOfLog, LogAndError, SystemOutText, CallAcrossLines, NoBlanksLine,
     NestedCallBroken, MultilineText, MultilineInCode, NestedThenLine, TableText,
     TableOfLog}

Texts == TextsOf(MaxPieces) \cup ScenarioTexts

\* The defaults of the CodeCleaner constructor.
DefaultMaxEmptyLines == 2
DefaultConfig ==
    [removeConsoleLog |-> TRUE, removeConsoleError |-> FALSE, removeDebugger |-> TRUE,
     removePrint |-> TRUE, removeSystemOut |-> TRUE,
     maxEmptyLines |-> DefaultMaxEmptyLines, cleanWhitespace |-> TRUE]

\* new CodeCleaner(config): every flag either way, maxEmptyLines from 0 up.
Configs ==
    [removeConsoleLog : BOOLEAN, removeConsoleError : BOOLEAN, removeDebugger : BOOLEAN,
     removePrint : BOOLEAN, removeSystemOut : BOOLEAN,
     maxEmptyLines : 0..MaxEmptyLines, cleanWhitespace : BOOLEAN]

\* The configurations a text is run with: a flag is varied when the text holds the
\* lexeme it is about, and maxEmptyLines when cleanWhitespace is on and the text has
\* a line terminator for the collapse of blank lines to start on; a setting that is
\* never read stays at its default.
ConfigsFor(text) ==
    {c \in Configs :
        /\ Includes(text, "L") \/ c.removeConsoleLog = DefaultConfig.removeConsoleLog
        /\ Includes(text, "E") \/ c.removeConsoleError = DefaultConfig.removeConsoleError
        /\ Includes(text, "D") \/ c.removeDebugger = DefaultConfig.removeDebugger
        /\ Includes(text, "P") \/ c.removePrint = DefaultConfig.removePrint
        /\ Includes(text, "S") \/ c.removeSystemOut = DefaultConfig.removeSystemOut
        /\ (c.cleanWhitespace /\ Includes(text, NL))
               \/ c.maxEmptyLines = DefaultConfig.maxEmptyLines}

(***************************************************************************)
(* Call expressions as the traversal sees them: the callee is an Identifier *)
(* or a MemberExpression; a MemberExpression has an object, a property and  *)
(* the computed flag (console[log] has the Identifier log as property, with *)
(* computed true; console["log"] has a StringLiteral).                      *)
(***************************************************************************)
ConsoleMethods ==
    {"log", "debug", "info", "warn", "error", "trace", "table", "time", "timeEnd"}

\* Names of identifiers and values of string literals in the expressions.
ObjectNames == {"console", "window", "System", "logger"}
PropertyNames == ConsoleMethods \cup {"println", "assert", "out", "console"}

NoExpr == [type |-> "None", name |-> ""]
Identifier(name) == [type |-> "Identifier", name |-> name]
StringLiteral(value) == [type |-> "StringLiteral", name |-> value]

\* The object of the callee: an identifier, this, or a member access of two identifiers.
CalleeObjects ==
    {[type |-> "Identifier", name |-> n, object |-> NoExpr, property |-> NoExpr] :
         n \in ObjectNames}
    \cup {[type |-> "ThisExpression", name |-> "", object |-> NoExpr, property |-> NoExpr]}
    \cup {[type |-> "MemberExpression", name |-> "", object |-> Identifier(o),
           property |-> Identifier(q)] :
              o \in {"window", "System"}, q \in {"console", "out"}}

NoObject == [type |-> "None", name |-> "", object |-> NoExpr, property |-> NoExpr]

\* The callee: an identifier, or a member access, computed or not; a property that is
\* not computed is an identifier.
Callees ==
    {[type |-> "Identifier", name |-> n, object |-> NoObject, property |-> NoExpr,
      computed |-> FALSE] : n \in {"print", "log", "console"}}
    \cup {callee \in [type : {"MemberExpression"}, name : {""}, object : CalleeObjects,
                       property : {Identifier(n) : n \in PropertyNames}
                                      \cup {StringLiteral(n) : n \in {"log", "println"}},
                       computed : BOOLEAN] :
              callee.computed \/ callee.property.type = "Identifier"}

CallNodes == {[type |-> "CallExpression", callee |-> c] : c \in Callees}

NoNode ==
    [type |-> "None",
     callee |-> [type |-> "None", name |-> "", object |-> NoObject, property |-> NoExpr,
                 computed |-> FALSE]]

\* t.isIdentifier(node) and t.isIdentifier(node, { name }).
isIdentifier(expr) == expr.type = "Identifier"
isIdentifierNamed(expr, name) == expr.type = "Identifier" /\ expr.name = name
isMemberExpression(expr) == expr.type = "MemberExpression"

isConsoleCall(n) ==
    /\ isMemberExpression(n.callee)
    /\ isIdentifierNamed(n.callee.object, "console")
    /\ isIdentifier(n.callee.property)
    /\ n.callee.property.name \in ConsoleMethods

isPrintCall(n) == isIdentifierNamed(n.callee, "print")

isSystemOutCall(n) ==
    /\ isMemberExpression(n.callee)
    /\ isMemberExpression(n.callee.object)
    /\ isIdentifierNamed(n.callee.object.object, "System")
    /\ isIdentifierNamed(n.callee.object.property, "out")
    /\ isIdentifierNamed(n.callee.property, "println")

\* The type handleCallExpression hands to addDebugStatement, "none" when it adds nothing.
handleCallExpression(n) ==
    IF isConsoleCall(n) THEN "console"
    ELSE IF isPrintCall(n) THEN "print"
    ELSE IF isSystemOutCall(n) THEN "system.out"
    ELSE "none"

\* The keys of getStatementsByType.
StatementTypes == {"console", "print", "debugger", "system.out"}

VARIABLES
    node,               \* the call expression the traversal visits
    flagged,            \* the type handleCallExpression recorded it with
    code,               \* the text given to parseCode and to removeDebugStatements
    config,             \* CodeCleaner.config
    pc,                 \* "start", "parsed", "removing", "done", "rescanned", "reported",
                        \* "previewed"
    heap,               \* the array objects made so far; an array's identity is its index
    thisDebugStatements,    \* DebugStatementParser.debugStatements: the array it holds
    thisRemovedStatements,  \* CodeCleaner.removedStatements: the array it holds
    statementsRef,      \* the array parseCode returned
    resultRef,          \* the array in removedStatements of the returned object
    again,              \* removeDebugStatements is running, or has run, a second time
    first,              \* the first call's returned object and the array in it
    report,             \* what generateCleanupReport returned
    preview,            \* what previewChanges returned
    scan,               \* the parseCode call as the command saw it
    statements,         \* what parseCode returned
    sortedStatements,   \* removeDebugStatements: the filtered, sorted statements
    next,               \* the index in sortedStatements of the statement applied next
    cleanCode,          \* removeDebugStatements: the buffer
    removedCount,       \* removeDebugStatements: the counter
    result,             \* what removeDebugStatements returned
    rescan,             \* the statements of the cleaned text that pass the filter
    document,           \* the text of the active editor's document
    readText,           \* a command's const text = document.getText()
    showPreview,        \* config.showPreview
    autoSave,           \* config.autoSave
    commandResult,      \* a command's const cleanResult
    edits,              \* the workspace edits the commands have applied
    saves,              \* the calls of document.save()
    invoked,            \* the command that runs: "cleanupDebug" or "cleanCurrentFile"
    changed,            \* the document was changed while the dialog was open
    files,              \* cleanWorkspace: what findFiles returned
    fileIndex,          \* the position of the for loop in files
    token,              \* token.isCancellationRequested
    processedFiles,     \* cleanWorkspace: the counters
    skippedFiles,
    totalRemovedStatements,
    errors,
    errorDetails,       \* the files of the entries pushed
    visited,            \* the files the loop body was entered for, in order
    openedFiles,        \* the files openTextDocument returned a document for
    editedFiles,        \* the files whose edit was applied
    savedFiles,         \* the files whose document was saved
    shown               \* the message at the end: "summary", "cancelled", "noFiles"

vars == <<node, flagged, code, config, pc, heap, thisDebugStatements, thisRemovedStatements, statementsRef,
          resultRef, again, first, report, preview, scan, statements, sortedStatements,
          next, cleanCode, removedCount, result, rescan, document, readText, showPreview,
          autoSave, commandResult, edits, saves, invoked, changed, files, fileIndex, token,
          processedFiles, skippedFiles, totalRemovedStatements, errors, errorDetails,
          visited, openedFiles, editedFiles, savedFiles, shown>>

\* The state of the editor and of the commands on it.
commandVars ==
    <<document, readText, showPreview, autoSave, commandResult, edits, saves, invoked,
      changed>>

\* No report yet.
NoReport ==
    [originalLines |-> 0, cleanedLines |-> 0, linesReduced |-> 0, removedCount |-> -1,
     statementsByType |-> [t \in StatementTypes |-> <<>>]]

\* The contents of the arrays the two instances hold.
debugStatements == heap[thisDebugStatements]
removedStatements == heap[thisRemovedStatements]

NoScan == [threw |-> FALSE, warning |-> "none", branch |-> "none", notice |-> "none"]
NoResult == [cleanCode |-> <<>>, removedCount |-> -1, removedStatements |-> <<>>]

\* The state of the cleanWorkspace batch.
batchVars ==
    <<files, fileIndex, token, processedFiles, skippedFiles, totalRemovedStatements,
      errors, errorDetails, visited, openedFiles, editedFiles, savedFiles, shown>>

\* The counters and the records of a batch that has not run.
BatchNotRun ==
    /\ fileIndex = 1
    /\ token = FALSE
    /\ processedFiles = 0
    /\ skippedFiles = 0
    /\ totalRemovedStatements = 0
    /\ errors = 0
    /\ errorDetails = <<>>
    /\ visited = <<>>
    /\ openedFiles = <<>>
    /\ editedFiles = <<>>
    /\ savedFiles = <<>>
    /\ shown = "none"

\* No batch.
NoBatch ==
    /\ files = <<>>
    /\ BatchNotRun

\* No editor and no command.
NoCommand ==
    /\ document = <<>>
    /\ readText = <<>>
    /\ showPreview = FALSE
    /\ autoSave = FALSE
    /\ commandResult = NoResult
    /\ edits = 0
    /\ saves = 0
    /\ invoked = "none"
    /\ changed = FALSE

Init ==
    /\ node = NoNode
    /\ flagged = "unvisited"
    /\ code \in Texts
    /\ config \in ConfigsFor(code)
    /\ pc = "start"
    /\ heap = <<<<>>, <<>>>>
    /\ thisDebugStatements = 1
    /\ thisRemovedStatements = 2
    /\ statementsRef = 0
    /\ resultRef = 0
    /\ again = FALSE
    /\ first = [result |-> NoResult, ref |-> 0]
    /\ report = NoReport
    /\ preview = <<>>
    /\ scan = NoScan
    /\ statements = <<>>
    /\ sortedStatements = <<>>
    /\ next = 0
    /\ cleanCode = <<>>
    /\ removedCount = 0
    /\ result = NoResult
    /\ rescan = <<>>
    /\ NoCommand
    /\ NoBatch

\* The command's scan: try { statements = parser.parseCode(text, filePath) } catch
\* { statements = parser.fallbackRegexParse(text) }.
ScanOf(command) ==
    [threw |-> command.threw, warning |-> command.warning, branch |-> command.branch,
     notice |-> command.notice]

\* The state after the command's scan: the arrays as parseCode left them, and the
\* statements the command goes on with.
Scanned(called, command) ==
    /\ heap' = called.heap
    /\ thisDebugStatements' = called.this
    /\ statementsRef' = called.returned
    /\ scan' = ScanOf(command)
    /\ statements' = command.statements

ParseCode ==
    /\ pc = "start"
    /\ Scanned(parseCodeOn(heap, thisDebugStatements, code),
               ScanCommand(code, parseCodeCall(code)))
    /\ pc' = "parsed"
    /\ UNCHANGED <<commandVars, batchVars, node, flagged, preview, code, config, thisRemovedStatements, resultRef, again, first, report,
                   sortedStatements, next, cleanCode, removedCount, result, rescan>>

\* The early return of removeDebugStatements with the final line terminator of the
\* white space cleanup applied.
NothingRemovedNormalized(text) ==
    [cleanCode |-> EndWithNewline(text), removedCount |-> 0, removedStatements |-> <<>>]

\* The early returns of removeDebugStatements: the text as given.
NothingRemoved(text) == [cleanCode |-> text, removedCount |-> 0, removedStatements |-> <<>>]

\* The statements of each of the four types, in their order.
getStatementsByType(sts) ==
    [t \in StatementTypes |-> SelectSeq(sts, LAMBDA stmt : stmt.type = t)]

\* generateCleanupReport: the pieces between line terminators of both texts are
\* counted and linesReduced is the difference.
generateCleanupReport(originalCode, cleanResult) ==
    [originalLines |-> Len(Split(originalCode)),
     cleanedLines |-> Len(Split(cleanResult.cleanCode)),
     linesReduced |-> Len(Split(originalCode)) - Len(Split(cleanResult.cleanCode)),
     removedCount |-> cleanResult.removedCount,
     statementsByType |-> getStatementsByType(cleanResult.removedStatements)]

\* One entry of previewChanges.
Change(original, statement) ==
    [line |-> statement.line, type |-> statement.type, text |-> statement.text,
     action |-> IF analyzeStatementContext(original, statement).isOnOwnLine
                THEN "Remove entire line" ELSE "Remove statement",
     context |-> analyzeStatementContext(original, statement).line]

\* Array.prototype.sort with (a, b) => a.line - b.line: stable, ascending.
RECURSIVE InsertByLine(_, _)
InsertByLine(sorted, change) ==
    IF Len(sorted) = 0 THEN <<change>>
    ELSE IF sorted[Len(sorted)].line <= change.line THEN Append(sorted, change)
    ELSE Append(InsertByLine(SubSeq(sorted, 1, Len(sorted) - 1), change),
                sorted[Len(sorted)])

RECURSIVE SortByLine(_)
SortByLine(changes) ==
    IF Len(changes) = 0 THEN <<>>
    ELSE InsertByLine(SortByLine(SubSeq(changes, 1, Len(changes) - 1)),
                      changes[Len(changes)])

previewChanges(original, sts) ==
    SortByLine([i \in 1..Len(sts) |-> Change(original, sts[i])])

\* The reversed removedStatements of the return value.
Reverse(s) == [i \in 1..Len(s) |-> s[Len(s) + 1 - i]]

\* cleaner.removeDebugStatements(code, statements), up to the loop: both early
\* returns (each with a new empty array in the returned object), the assignment
\* this.removedStatements = [], the filter and the sort.
RemoveBegin ==
    /\ pc = "parsed"
    /\ LET filteredStatements == filterStatementsByConfig(statements, config)
       IN  IF Len(statements) = 0
           THEN /\ result' = NothingRemoved(code)
                /\ heap' = NewArray(heap)
                /\ resultRef' = Len(heap) + 1
                /\ pc' = "done"
                /\ UNCHANGED <<thisRemovedStatements, sortedStatements, next, cleanCode,
                               removedCount>>
           ELSE IF Len(filteredStatements) = 0
           THEN /\ result' = NothingRemoved(code)
                /\ heap' = NewArray(NewArray(heap))
                /\ thisRemovedStatements' = Len(heap) + 1
                /\ resultRef' = Len(heap) + 2
                /\ pc' = "done"
                /\ UNCHANGED <<sortedStatements, next, cleanCode, removedCount>>
           ELSE /\ sortedStatements' = SortDesc(filteredStatements)
                /\ next' = 1
                /\ cleanCode' = code
                /\ removedCount' = 0
                /\ heap' = NewArray(heap)
                /\ thisRemovedStatements' = Len(heap) + 1
                /\ pc' = "removing"
                /\ UNCHANGED <<result, resultRef>>
    /\ UNCHANGED <<commandVars, batchVars, node, flagged, preview, code, config, thisDebugStatements, statementsRef, again, first, report, scan,
                   statements, rescan>>

\* The assignments of one turn of the loop, given the edited text and the array after
\* the push.
Removed(edited, removed) ==
    /\ cleanCode' = edited
    /\ removedCount' = removedCount + 1
    /\ heap' = [heap EXCEPT ![thisRemovedStatements] =
                    IF next = Len(sortedStatements) THEN Reverse(removed) ELSE removed]
    /\ next' = next + 1
    /\ IF next = Len(sortedStatements)
       THEN /\ result' = [cleanCode |-> IF config.cleanWhitespace
                                        THEN cleanWhitespace(edited, config.maxEmptyLines)
                                        ELSE edited,
                          removedCount |-> removedCount + 1,
                          removedStatements |-> Reverse(removed)]
            /\ resultRef' = thisRemovedStatements
            /\ pc' = "done"
       ELSE UNCHANGED <<result, resultRef, pc>>

\* One turn of sortedStatements.forEach: the edit and the push; after the last one, the
\* white space cleanup, the reversal of this.removedStatements in place and the return
\* of that same array in the returned object.
RemoveNext ==
    /\ pc = "removing"
    /\ Removed(removeStatement(cleanCode, sortedStatements[next]),
               Append(removedStatements, sortedStatements[next]))
    /\ UNCHANGED <<commandVars, batchVars, node, flagged, preview, code, config, thisDebugStatements, thisRemovedStatements, statementsRef,
                   again, first, report, scan, statements, sortedStatements, rescan>>

\* The state after parseCode on the cleaned text: the arrays as it left them, and the
\* statements of the returned array that the configuration selects.
Rescanned(called) ==
    /\ heap' = called.heap
    /\ thisDebugStatements' = called.this
    /\ rescan' = filterStatementsByConfig(called.heap[called.returned], config)

\* The same parser and configuration on the cleaned text of the first call.
ParseCleaned ==
    /\ pc = "done"
    /\ ~again
    /\ Rescanned(parseCodeOn(heap, thisDebugStatements, result.cleanCode))
    /\ pc' = "rescanned"
    /\ UNCHANGED <<commandVars, batchVars, node, flagged, preview, code, config, thisRemovedStatements, statementsRef, resultRef, again,
                   first, report, scan, statements, sortedStatements, next, cleanCode, removedCount,
                   result>>

\* cleaner.generateCleanupReport(text, cleanResult) of the command, on the first
\* call's returned object.
GenerateReport ==
    /\ pc = "rescanned"
    /\ report' = generateCleanupReport(code, result)
    /\ pc' = "reported"
    /\ UNCHANGED <<commandVars, batchVars, node, flagged, preview, code, config, heap, thisDebugStatements, thisRemovedStatements,
                   statementsRef, resultRef, again, first, scan, statements,
                   sortedStatements, next, cleanCode, removedCount, result, rescan>>

\* cleaner.previewChanges(text, statements) of the command: the text and the statements
\* of the scan, not the filtered ones.
PreviewChanges ==
    /\ pc = "reported"
    /\ preview' = previewChanges(code, statements)
    /\ pc' = "previewed"
    /\ UNCHANGED <<commandVars, batchVars, node, flagged, code, config, heap, thisDebugStatements,
                   thisRemovedStatements, statementsRef, resultRef, again, first, report,
                   scan, statements, sortedStatements, next, cleanCode, removedCount,
                   result, rescan>>

\* cleaner.removeDebugStatements(code, statements) called once more on the same
\* CodeCleaner with the same arguments; the first returned object is kept aside.
RemoveAgain ==
    /\ pc = "previewed"
    /\ again' = TRUE
    /\ first' = [result |-> result, ref |-> resultRef]
    /\ pc' = "parsed"
    /\ UNCHANGED <<commandVars, batchVars, node, flagged, preview, code, config, heap, thisDebugStatements, thisRemovedStatements,
                   statementsRef, resultRef, report, scan, statements, sortedStatements, next,
                   cleanCode, removedCount, result, rescan>>

Next == ParseCode \/ RemoveBegin \/ RemoveNext \/ ParseCleaned \/ GenerateReport
            \/ PreviewChanges \/ RemoveAgain

Spec == Init /\ [][Next]_vars

\* The traversal over one call expression of any of the shapes: the instances are as
\* constructed and no text is being cleaned.
InitClassify ==
    /\ node \in CallNodes
    /\ flagged = "unvisited"
    /\ code = <<>>
    /\ config = DefaultConfig
    /\ pc = "visit"
    /\ heap = <<<<>>, <<>>>>
    /\ thisDebugStatements = 1
    /\ thisRemovedStatements = 2
    /\ statementsRef = 0
    /\ resultRef = 0
    /\ again = FALSE
    /\ first = [result |-> NoResult, ref |-> 0]
    /\ report = NoReport
    /\ preview = <<>>
    /\ scan = NoScan
    /\ statements = <<>>
    /\ sortedStatements = <<>>
    /\ next = 0
    /\ cleanCode = <<>>
    /\ removedCount = 0
    /\ result = NoResult
    /\ rescan = <<>>
    /\ NoCommand
    /\ NoBatch

\* The CallExpression visitor on the node.
VisitCallExpression ==
    /\ pc = "visit"
    /\ flagged' = handleCallExpression(node)
    /\ pc' = "visited"
    /\ UNCHANGED <<commandVars, batchVars, node, preview, code, config, heap, thisDebugStatements, thisRemovedStatements,
                   statementsRef, resultRef, again, first, report, scan, statements,
                   sortedStatements, next, cleanCode, removedCount, result, rescan>>

NextClassify == VisitCallExpression

SpecClassify == InitClassify /\ [][NextClassify]_vars

(***************************************************************************)
(* The commands cleanupDebug and cleanCurrentFile on the document of the   *)
(* active editor.  A command runs without interruption from one await to   *)
(* the next; the document is the host's and changes between them.          *)
(***************************************************************************)
\* sortedStatements.forEach of removeDebugStatements: the text after the removal of
\* the statements from the k-th on.
RECURSIVE RemoveEach(_, _, _)
RemoveEach(original, sorted, k) ==
    IF k > Len(sorted) THEN original
    ELSE RemoveEach(removeStatement(original, sorted[k]), sorted, k + 1)

\* The object removeDebugStatements returns after the loop.
AllRemoved(edited, sorted, cfg) ==
    [cleanCode |-> IF cfg.cleanWhitespace THEN cleanWhitespace(edited, cfg.maxEmptyLines)
                   ELSE edited,
     removedCount |-> Len(sorted),
     removedStatements |-> Reverse(sorted)]

\* The loop of removeDebugStatements over the statements the filter kept.
RemoveFiltered(original, sorted, cfg) ==
    AllRemoved(RemoveEach(original, sorted, 1), sorted, cfg)

\* cleaner.removeDebugStatements(text, statements) as one call.
removeDebugStatements(original, sts, cfg) ==
    IF Len(sts) = 0 \/ Len(filterStatementsByConfig(sts, cfg)) = 0
    THEN NothingRemoved(original)
    ELSE RemoveFiltered(original, SortDesc(filterStatementsByConfig(sts, cfg)), cfg)

\* The early returns of a command that scanned only: it goes on whenever a statement
\* was found.
CommandOutcomeOfScan(sts, cleaned) ==
    IF Len(sts) = 0 THEN "nothingFound" ELSE "clean"

\* The early returns of a command after the scan and after the removal.
CommandOutcome(sts, cleaned) ==
    IF Len(sts) = 0 THEN "nothingFound"
    ELSE IF cleaned.removedCount = 0 THEN "nothingToClean"
    ELSE "clean"

\* edit.replace(document.uri, fullRange, cleanCode) applied to the document as it is:
\* fullRange runs from positionAt(0) to positionAt(text.length), and positionAt stops
\* at the end of the document.
applyEdit(current, original, replacement) ==
    replacement \o SubstringFrom(current, Min(Len(original), Len(current)))

MaxDocumentPieces == 2

\* The texts of the document in the editor.
Documents == TextsOf(MaxDocumentPieces) \cup ScenarioTexts

\* The editor shows a document; no command runs.
InitCommand ==
    /\ node = NoNode
    /\ flagged = "unvisited"
    /\ code = <<>>
    /\ document \in Documents
    /\ config \in ConfigsFor(document)
    /\ showPreview \in BOOLEAN
    /\ autoSave \in BOOLEAN
    /\ pc = "idle"
    /\ heap = <<<<>>, <<>>>>
    /\ thisDebugStatements = 1
    /\ thisRemovedStatements = 2
    /\ statementsRef = 0
    /\ resultRef = 0
    /\ again = FALSE
    /\ first = [result |-> NoResult, ref |-> 0]
    /\ report = NoReport
    /\ preview = <<>>
    /\ scan = NoScan
    /\ statements = <<>>
    /\ sortedStatements = <<>>
    /\ next = 0
    /\ cleanCode = <<>>
    /\ removedCount = 0
    /\ result = NoResult
    /\ rescan = <<>>
    /\ readText = <<>>
    /\ commandResult = NoResult
    /\ edits = 0
    /\ saves = 0
    /\ invoked = "none"
    /\ changed = FALSE
    /\ NoBatch

\* What the commands leave alone: the instances of Spec and the configuration.
scannerVars ==
    <<node, flagged, code, config, heap, thisDebugStatements, thisRemovedStatements,
      statementsRef, resultRef, again, first, report, preview, scan, statements,
      sortedStatements, next, cleanCode, removedCount, result, rescan, showPreview,
      autoSave>>

\* The full-range replacement by the text cleaned from original, and the save that
\* follows it when autoSave is set.
Replaced(original, replacement) ==
    /\ document' = applyEdit(document, original, replacement)
    /\ edits' = edits + 1
    /\ saves' = IF autoSave THEN saves + 1 ELSE saves

\* A command from document.getText() to its first await or its return, given the
\* statements scanned and the result of the removal; the dialog is cleanupDebug's.
Started(name, sts, cleaned) ==
    /\ invoked' = name
    /\ readText' = document
    /\ commandResult' = cleaned
    /\ IF CommandOutcome(sts, cleaned) # "clean"
       THEN /\ pc' = CommandOutcome(sts, cleaned)
            /\ UNCHANGED <<document, edits, saves>>
       ELSE IF name = "cleanupDebug" /\ showPreview
       THEN /\ pc' = "confirm"
            /\ UNCHANGED <<document, edits, saves>>
       ELSE /\ pc' = "cleaned"
            /\ Replaced(document, cleaned.cleanCode)

\* The scan and the removal of a command on the text it read.
StartedOn(name, sts) ==
    Started(name, sts, removeDebugStatements(document, sts, config))

\* The command debug-cleanup-pro.cleanupDebug.
CleanupDebug ==
    /\ pc = "idle"
    /\ StartedOn("cleanupDebug", parseCode(document))
    /\ UNCHANGED <<batchVars, scannerVars, changed>>

\* The command debug-cleanup-pro.cleanCurrentFile, alone.
CleanCurrentFile ==
    /\ pc = "idle"
    /\ StartedOn("cleanCurrentFile", parseCode(document))
    /\ UNCHANGED <<batchVars, scannerVars, changed>>

\* The answer to the dialog of cleanupDebug: the edit is built from the text and the
\* result the command holds.
Confirm ==
    /\ pc = "confirm"
    /\ \E proceed \in BOOLEAN :
        IF proceed
        THEN /\ pc' = "cleaned"
             /\ Replaced(readText, commandResult.cleanCode)
        ELSE /\ pc' = "declined"
             /\ UNCHANGED <<document, edits, saves>>
    /\ UNCHANGED <<batchVars, scannerVars, readText, commandResult, invoked, changed>>

\* The document after a whole run of cleanCurrentFile on it.
SecondRun(sts, cleaned) ==
    IF CommandOutcome(sts, cleaned) # "clean"
    THEN UNCHANGED <<document, edits, saves>>
    ELSE Replaced(document, cleaned.cleanCode)

SecondRunOn(sts) == SecondRun(sts, removeDebugStatements(document, sts, config))

\* cleanCurrentFile runs on the same document while the dialog of cleanupDebug is open.
SecondCommand ==
    /\ pc = "confirm"
    /\ ~changed
    /\ SecondRunOn(parseCode(document))
    /\ changed' = TRUE
    /\ UNCHANGED <<batchVars, scannerVars, pc, readText, commandResult, invoked>>

\* The document is edited while the dialog of cleanupDebug is open: an identifier
\* character is typed at its start or at its end.
EditDocument ==
    /\ pc = "confirm"
    /\ ~changed
    /\ document' \in {<<"x">> \o document, document \o <<"x">>}
    /\ changed' = TRUE
    /\ UNCHANGED <<batchVars, scannerVars, pc, readText, commandResult, edits, saves, invoked>>

NextCommand ==
    CleanupDebug \/ CleanCurrentFile \/ Confirm \/ SecondCommand \/ EditDocument

SpecCommand == InitCommand /\ [][NextCommand]_vars

(***************************************************************************)
(* The command cleanWorkspace: the loop over the files of the workspace.   *)
(* Each await (openTextDocument, applyEdit, save) ends a step; the host    *)
(* may request cancellation between any two steps.                         *)
(***************************************************************************)
MaxFiles == 2

\* Texts of files: no debug statement, one that the default configuration removes, one
\* that it keeps (removeConsoleError is off).
CleanFile == <<"x", ";">>
LogFile == <<"L", "(", "x", ")", ";", NL, "x">>
ErrorFile == <<"E", "(", "x", ")", ";">>

\* A file: its text and what happens to it. "excluded": shouldExcludeFile is true;
\* "open": openTextDocument rejects; "parse": parseCode and fallbackRegexParse throw;
\* "clean": removeDebugStatements throws; "edit": applyEdit rejects; "save":
\* document.save() rejects.
\* With the text go the number of statements parseCode returns for it and the
\* removedCount of removeDebugStatements on them, under the default configuration.
WorkspaceFile(t, b) ==
    [text |-> t, behaviour |-> b, statements |-> Len(parseCode(t)),
     removedCount |-> removeDebugStatements(t, parseCode(t), DefaultConfig).removedCount]

WorkspaceFiles ==
    {WorkspaceFile(t, "none") : t \in {CleanFile, LogFile, ErrorFile}}
    \cup {WorkspaceFile(LogFile, b) :
            b \in {"excluded", "open", "parse", "clean", "edit", "save"}}

\* What findFiles may return.
FileLists == UNION {[1..n -> WorkspaceFiles] : n \in 0..MaxFiles}

\* The progress callback starts, after the user agreed to clean the workspace.
InitWorkspace ==
    /\ node = NoNode
    /\ flagged = "unvisited"
    /\ code = <<>>
    /\ config = DefaultConfig
    /\ showPreview = FALSE
    /\ autoSave \in BOOLEAN
    /\ pc = "findFiles"
    /\ heap = <<<<>>, <<>>>>
    /\ thisDebugStatements = 1
    /\ thisRemovedStatements = 2
    /\ statementsRef = 0
    /\ resultRef = 0
    /\ again = FALSE
    /\ first = [result |-> NoResult, ref |-> 0]
    /\ report = NoReport
    /\ preview = <<>>
    /\ scan = NoScan
    /\ statements = <<>>
    /\ sortedStatements = <<>>
    /\ next = 0
    /\ cleanCode = <<>>
    /\ removedCount = 0
    /\ result = NoResult
    /\ rescan = <<>>
    /\ document = <<>>
    /\ readText = <<>>
    /\ commandResult = NoResult
    /\ edits = 0
    /\ saves = 0
    /\ invoked = "none"
    /\ changed = FALSE
    /\ files \in FileLists
    /\ BatchNotRun

\* What the batch leaves alone.
editorVars == <<document, readText, commandResult, edits, saves, invoked, changed>>

\* files = await findFiles(...): with no file, the warning and the return.
FindFiles ==
    /\ pc = "findFiles"
    /\ IF Len(files) = 0
       THEN /\ shown' = "noFiles"
            /\ pc' = "returned"
       ELSE /\ pc' = "loop"
            /\ UNCHANGED shown
    /\ UNCHANGED <<scannerVars, editorVars, files, fileIndex, token, processedFiles,
                   skippedFiles, totalRemovedStatements, errors, errorDetails, visited,
                   openedFiles, editedFiles, savedFiles>>

\* The top of a turn of the loop: its end, the break on cancellation, the skip of an
\* excluded file, or the call of openTextDocument.
LoopTop ==
    /\ pc = "loop"
    /\ IF fileIndex > Len(files) \/ token
       THEN /\ pc' = "after"
            /\ UNCHANGED <<fileIndex, skippedFiles, visited>>
       ELSE /\ visited' = Append(visited, fileIndex)
            /\ IF files[fileIndex].behaviour = "excluded"
               THEN /\ skippedFiles' = skippedFiles + 1
                    /\ fileIndex' = fileIndex + 1
                    /\ pc' = "loop"
               ELSE /\ pc' = "opening"
                    /\ UNCHANGED <<fileIndex, skippedFiles>>
    /\ UNCHANGED <<scannerVars, editorVars, files, token, processedFiles,
                   totalRemovedStatements, errors, errorDetails, openedFiles,
                   editedFiles, savedFiles, shown>>

\* errors++ without the push onto errorDetails.
FileErrorUncounted(counted, details, file) ==
    [errors |-> counted + 1, errorDetails |-> details]

\* errors++; errorDetails.push({ file, error }).
FileErrorCaught(counted, details, file) ==
    [errors |-> counted + 1, errorDetails |-> Append(details, file)]

\* The record of an error of the file of this turn.
Recorded(caught) ==
    /\ errors' = caught.errors
    /\ errorDetails' = caught.errorDetails

\* catch (fileError), then the end of the turn.
Caught ==
    /\ Recorded(FileErrorCaught(errors, errorDetails, fileIndex))
    /\ processedFiles' = processedFiles + 1
    /\ fileIndex' = fileIndex + 1
    /\ pc' = "loop"

\* The end of a turn without an error: processedFiles++.
Completed ==
    /\ processedFiles' = processedFiles + 1
    /\ fileIndex' = fileIndex + 1
    /\ pc' = "loop"
    /\ UNCHANGED <<errors, errorDetails>>

\* The turn after the scan: the removal, and the call of applyEdit when something
\* was removed.
AfterScan(file) ==
    IF file.statements = 0 THEN Completed
    ELSE IF file.behaviour = "clean" THEN Caught
    ELSE IF file.removedCount > 0
    THEN /\ pc' = "editing"
         /\ UNCHANGED <<fileIndex, processedFiles, errors, errorDetails>>
    ELSE Completed

\* openTextDocument settles: the scan with its fallback (an error of the fallback is
\* recorded and the loop continues without processedFiles++), the removal, and the
\* call of applyEdit.
OpenDone ==
    /\ pc = "opening"
    /\ IF files[fileIndex].behaviour = "open"
       THEN /\ Caught
            /\ UNCHANGED openedFiles
       ELSE /\ openedFiles' = Append(openedFiles, fileIndex)
            /\ IF files[fileIndex].behaviour = "parse"
               THEN /\ Recorded(FileErrorCaught(errors, errorDetails, fileIndex))
                    /\ fileIndex' = fileIndex + 1
                    /\ pc' = "loop"
                    /\ UNCHANGED processedFiles
               ELSE AfterScan(files[fileIndex])
    /\ UNCHANGED <<scannerVars, editorVars, files, token, skippedFiles,
                   totalRemovedStatements, visited, editedFiles, savedFiles, shown>>

\* applyEdit settles: the counter of removed statements and the call of save.
EditDone ==
    /\ pc = "editing"
    /\ IF files[fileIndex].behaviour = "edit"
       THEN /\ Caught
            /\ UNCHANGED <<editedFiles, totalRemovedStatements>>
       ELSE /\ editedFiles' = Append(editedFiles, fileIndex)
            /\ totalRemovedStatements' =
                    totalRemovedStatements + files[fileIndex].removedCount
            /\ IF autoSave
               THEN /\ pc' = "saving"
                    /\ UNCHANGED <<fileIndex, processedFiles, errors, errorDetails>>
               ELSE Completed
    /\ UNCHANGED <<scannerVars, editorVars, files, token, skippedFiles, visited,
                   openedFiles, savedFiles, shown>>

\* document.save() settles.
SaveDone ==
    /\ pc = "saving"
    /\ IF files[fileIndex].behaviour = "save"
       THEN /\ Caught
            /\ UNCHANGED savedFiles
       ELSE /\ savedFiles' = Append(savedFiles, fileIndex)
            /\ Completed
    /\ UNCHANGED <<scannerVars, editorVars, files, token, skippedFiles,
                   totalRemovedStatements, visited, openedFiles, editedFiles, shown>>

\* The message after the loop, whatever the token says.
ShownAfterLoopSummary(requested) == "summary"

\* The message after the loop.
ShownAfterLoop(requested) == IF ~requested THEN "summary" ELSE "cancelled"

\* After the loop: the summary or the warning.
ShowResult ==
    /\ pc = "after"
    /\ shown' = ShownAfterLoop(token)
    /\ pc' = "returned"
    /\ UNCHANGED <<scannerVars, editorVars, files, fileIndex, token, processedFiles,
                   skippedFiles, totalRemovedStatements, errors, errorDetails, visited,
                   openedFiles, editedFiles, savedFiles>>

\* The user cancels the progress notification while the callback runs.
Cancel ==
    /\ pc \in {"findFiles", "loop", "opening", "editing", "saving", "after"}
    /\ ~token
    /\ token' = TRUE
    /\ UNCHANGED <<scannerVars, editorVars, pc, files, fileIndex, processedFiles,
                   skippedFiles, totalRemovedStatements, errors, errorDetails, visited,
                   openedFiles, editedFiles, savedFiles, shown>>

\* The steps of the callback.
Callback == FindFiles \/ LoopTop \/ OpenDone \/ EditDone \/ SaveDone \/ ShowResult

NextWorkspace ==
    FindFiles \/ LoopTop \/ OpenDone \/ EditDone \/ SaveDone \/ ShowResult \/ Cancel

\* Every promise the callback awaits settles, and the callback goes on when it does.
SpecWorkspace == InitWorkspace /\ [][NextWorkspace]_vars /\ WF_vars(Callback)

(***************************************************************************)
(* The claims.                                                             *)
(***************************************************************************)
Done == pc \in {"done", "rescanned"}

\* The text without its white space.
RECURSIVE Squeeze(_)
Squeeze(s) ==
    IF Len(s) = 0 THEN <<>>
    ELSE (IF Head(s) \in Whitespace THEN <<>> ELSE <<Head(s)>>) \o Squeeze(Tail(s))

\* The tokens of a text, each as the lexemes it is written with.
TokenTexts(s) ==
    LET toks == Tokenize(s, 0)
    IN  [i \in 1..Len(toks) |-> SubSeq(s, toks[i].start + 1, toks[i].end)]

RECURSIVE IsSubsequence(_, _)
IsSubsequence(a, b) ==
    IF Len(a) = 0 THEN TRUE
    ELSE IF Len(b) = 0 THEN FALSE
    ELSE IF Head(a) = Head(b) THEN IsSubsequence(Tail(a), Tail(b))
    ELSE IsSubsequence(a, Tail(b))

RECURSIVE Without(_, _)
Without(s, drop) ==
    IF Len(s) = 0 THEN <<>>
    ELSE (IF Head(s) \in drop THEN <<>> ELSE <<Head(s)>>) \o Without(Tail(s), drop)

\* The lines of a text: the empty text has none, and a line terminator at the very end
\* opens no further line.
LinesOf(s) ==
    LET ls == Split(s)
    IN  IF Len(s) = 0 THEN <<>>
        ELSE IF s[Len(s)] = NL THEN SubSeq(ls, 1, Len(ls) - 1)
        ELSE ls

\* The longest run of consecutive blank or white-space-only lines.
RECURSIVE LongestBlankRun(_, _, _, _)
LongestBlankRun(ls, i, run, best) ==
    IF i > Len(ls) THEN Max(run, best)
    ELSE IF IsBlank(ls[i]) THEN LongestBlankRun(ls, i + 1, run + 1, best)
    ELSE LongestBlankRun(ls, i + 1, 0, Max(run, best))

\* For every non-blank line, the number of blank lines right before it.
RECURSIVE BlankLinesBefore(_, _, _)
BlankLinesBefore(ls, i, run) ==
    IF i > Len(ls) THEN <<>>
    ELSE IF IsBlank(ls[i]) THEN BlankLinesBefore(ls, i + 1, run + 1)
    ELSE <<run>> \o BlankLinesBefore(ls, i + 1, 0)

RECURSIVE NonBlankLines(_)
NonBlankLines(ls) ==
    IF Len(ls) = 0 THEN <<>>
    ELSE (IF IsBlank(Head(ls)) THEN <<>> ELSE <<Head(ls)>>) \o NonBlankLines(Tail(ls))

NoDebugLexeme(s) == \A i \in 1..Len(s) : s[i] \notin {"L", "E", "T", "P", "D", "S"}

\* C1: when a statement is applied, the buffer range [start, end) still holds exactly
\* that statement's original text.
C1_OffsetsStayValid ==
    pc = "removing" =>
        LET statement == sortedStatements[next]
        IN  Substring(cleanCode, statement.start, statement.end) = statement.text

\* C2: for a text the structural parser accepts, every token of cleanCode that is not
\* a token of a removed statement's text also appears in the original text, in the
\* same relative order.
C2_NonCorruption ==
    (Done /\ Parse(code).ok) =>
        LET removed == UNION {{TokenTexts(result.removedStatements[i].text)[k] :
                                   k \in 1..Len(TokenTexts(result.removedStatements[i].text))} :
                               i \in 1..Len(result.removedStatements)}
        IN  IsSubsequence(Without(TokenTexts(result.cleanCode), removed), TokenTexts(code))

\* C3: a single statement in the middle of a line of a text the structural parser
\* accepts is excised alone: the text before its start and the text after its end both
\* survive (compared without white space).
C3_MidLineExcision ==
    (Done /\ Parse(code).ok /\ Len(statements) = 1 /\ result.removedCount = 1) =>
        LET statement == statements[1]
            context == analyzeStatementContext(code, statement)
        IN  (~context.isAtLineStart /\ ~context.isAtLineEnd) =>
                Squeeze(result.cleanCode) =
                    Squeeze(Substring(code, 0, statement.start))
                        \o Squeeze(SubstringFrom(code, statement.end))

\* C4: removing the console statements of Scenario 1 yields exactly the other code
\* with its semicolon (compared without white space).
C4_Scenario1 ==
    (Done /\ code = Scenario1 /\ result.removedCount = 2) =>
        Squeeze(result.cleanCode) = <<"x", ";">>

\* The console method a console statement calls: the first method name of its text.
CalledMethod(statement) ==
    statement.text[CHOOSE i \in 1..Len(statement.text) :
                       /\ statement.text[i] \in ConsoleChars
                       /\ \A j \in 1..(i - 1) : statement.text[j] \notin ConsoleChars]

\* The configuration flag that governs a statement: removeConsole<Method> of the
\* called method for console, the flag of the type otherwise.
FlagOf(statement, cfg) ==
    IF statement.type = "console"
    THEN IF CalledMethod(statement) = "L" THEN cfg.removeConsoleLog
         ELSE IF CalledMethod(statement) = "E" THEN cfg.removeConsoleError
         ELSE TRUE
    ELSE IF statement.type = "debugger" THEN cfg.removeDebugger
    ELSE IF statement.type = "print" THEN cfg.removePrint
    ELSE cfg.removeSystemOut

\* C5: a statement is a removal candidate iff the flag of the method it calls (for
\* console) or of its type (debugger, print, system.out) is true, whatever its
\* arguments hold.
C5_FilterByCalledMethod ==
    (pc = "removing" \/ Done) =>
        \A i \in 1..Len(statements) :
            (\E k \in 1..Len(sortedStatements) : sortedStatements[k] = statements[i])
                <=> FlagOf(statements[i], config)

\* C6: the [start, end) ranges of the statements of one parseCode call are pairwise
\* non-overlapping.
C6_NonOverlapping ==
    \A i, j \in 1..Len(statements) :
        i < j => \/ statements[i].end <= statements[j].start
                 \/ statements[j].end <= statements[i].start

\* C7: scanning the cleaned text again, with the same configuration, yields no
\* statement eligible for removal.
C7_Idempotent == pc = "rescanned" => rescan = <<>>

C9_BlankRunsBounded ==
    (Done /\ config.cleanWhitespace) =>
        LongestBlankRun(LinesOf(result.cleanCode), 1, 0, 0) <= config.maxEmptyLines

\* C10: cleanWhitespace brings every run of more than maxEmptyLines blank lines between
\* two non-blank lines down to exactly maxEmptyLines, leaves shorter runs as they are
\* and keeps the indentation of the non-blank lines (their trailing blanks go).
C10_CollapseExact ==
    (Done /\ result.removedCount > 0 /\ config.cleanWhitespace) =>
        LET before == LinesOf(cleanCode)
            after == LinesOf(result.cleanCode)
            kept == NonBlankLines(before)
            gapsBefore == BlankLinesBefore(before, 1, 0)
            gapsAfter == BlankLinesBefore(after, 1, 0)
        IN  /\ NonBlankLines(after) = [i \in 1..Len(kept) |-> StripEnd(kept[i], {SP})]
            /\ Len(gapsAfter) = Len(gapsBefore)
            /\ \A i \in 2..Len(gapsBefore) :
                   gapsAfter[i] = Min(gapsBefore[i], config.maxEmptyLines)

C12_FallbackOnSyntaxError ==
    (pc = "parsed" /\ ~again /\ ~Parse(code).ok) =>
        /\ statements = fallbackRegexParse(code)
        /\ debugStatements = <<>>

\* C12 witness: a rejected text in which the fallback finds statements.
C12_Witness ==
    /\ pc = "parsed"
    /\ ~Parse(code).ok
    /\ Len(statements) > 1
    /\ statements = fallbackRegexParse(code)

\* The opening parentheses of a text minus its closing ones.
RECURSIVE ParenDepth(_)
ParenDepth(s) ==
    IF Len(s) = 0 THEN 0
    ELSE (IF Head(s) = "(" THEN 1 ELSE IF Head(s) = ")" THEN -1 ELSE 0) + ParenDepth(Tail(s))

\* A closing parenthesis that balances the opening one of the call starting at offset
\* start is in the text.
HasBalancedCall(text, start) ==
    \E e \in (start + 1)..Len(text) :
        /\ text[e] = ")"
        /\ ParenDepth(Substring(text, start, e)) = 0

\* C13: a call the lexical fallback matches runs from its name through the closing
\* parenthesis that balances its opening one (when the text has one), so the
\* parentheses of its text balance.
C13_BalancedMatch ==
    (pc # "start" /\ ~Parse(code).ok) =>
        \A i \in 1..Len(statements) :
            (statements[i].type # "debugger" /\ HasBalancedCall(code, statements[i].start))
                => ParenDepth(statements[i].text) = 0

\* A call statement whose text runs over several lines.
IsMultiline(statement) == statement.type # "debugger" /\ Includes(statement.text, NL)

\* The lexemes of a text that lie in none of the [start, end) ranges of the statements.
Outside(text, sts) ==
    LET keep == {i \in 1..Len(text) :
                    \A k \in 1..Len(sts) : ~(sts[k].start < i /\ i <= sts[k].end)}
        pick[i \in 0..Len(text)] ==
            IF i = 0 THEN <<>>
            ELSE IF i \in keep THEN Append(pick[i - 1], text[i]) ELSE pick[i - 1]
    IN  pick[Len(text)]

AloneBetweenBlankLines(text, statement) ==
    LET lines == Split(text)
        context == analyzeStatementContext(text, statement)
        n == context.lineNumber + 1
    IN  /\ context.isOnOwnLine
        /\ ~Includes(statement.text, NL)
        /\ 1 < n /\ n < Len(lines)
        /\ IsBlank(lines[n - 1])
        /\ IsBlank(lines[n + 1])

\* C15: removing a statement that is alone on its line between blank lines deletes its
\* line and leaves no run of blank lines longer than maxEmptyLines that the original
\* text did not already have, with cleanWhitespace on or off.
C15_NoNewBlankRun ==
    (Done /\ Len(statements) = 1 /\ result.removedCount = 1
          /\ AloneBetweenBlankLines(code, statements[1])) =>
        /\ ~Includes(result.cleanCode, statements[1].text[1])
        /\ LongestBlankRun(LinesOf(result.cleanCode), 1, 0, 0)
               <= Max(config.maxEmptyLines, LongestBlankRun(LinesOf(code), 1, 0, 0))

\* The lines of a text that hold a lexeme and none of any of the statements.
UntouchedLines(text, sts) ==
    LET lines == Split(text)
        lineStart[i \in 1..Len(lines)] ==
            IF i = 1 THEN 0 ELSE lineStart[i - 1] + Len(lines[i - 1]) + 1
        touched == {i \in 1..Len(lines) :
                       \/ Len(lines[i]) = 0
                       \/ \E k \in 1..Len(sts) :
                              /\ sts[k].start <= lineStart[i] + Len(lines[i])
                              /\ lineStart[i] < sts[k].end}
        pick[i \in 0..Len(lines)] ==
            IF i = 0 THEN <<>>
            ELSE IF i \in touched THEN pick[i - 1] ELSE Append(pick[i - 1], lines[i])
    IN  pick[Len(lines)]

\* C16: with cleanWhitespace off the returned text is the text the per-statement edits
\* produced, and every line of the original that holds nothing of a removed statement
\* is in it as it was, in the original order.
C16_OnlyStatementEdits ==
    (Done /\ ~config.cleanWhitespace /\ result.removedCount > 0) =>
        /\ result.cleanCode = cleanCode
        /\ IsSubsequence(UntouchedLines(code, result.removedStatements),
                         Split(result.cleanCode))

\* C17: calls on the same DebugStatementParser and CodeCleaner are independent: what a
\* call returns is what its arguments and the configuration determine, whatever was
\* called before on the instance, and the array in an object returned earlier is not
\* changed by a later call.
C17_CallsIndependent ==
    /\ pc # "start" => heap[statementsRef] = statements
    /\ Done => heap[resultRef] = result.removedStatements
    /\ pc = "rescanned" =>
           rescan = filterStatementsByConfig(parseCode(result.cleanCode), config)
    /\ (again /\ pc = "done") =>
           /\ result = first.result
           /\ heap[first.ref] = first.result.removedStatements

\* The second removeDebugStatements call has returned after removing statements, the
\* first scan came from the traversal, and the traversal of the cleaned text pushed
\* statements onto the parser's array.
C17_Witness ==
    /\ again
    /\ pc = "done"
    /\ result.removedCount >= 1
    /\ first.ref # resultRef
    /\ Parse(code).ok
    /\ Parse(first.result.cleanCode).ok
    /\ thisDebugStatements # statementsRef
    /\ debugStatements # <<>>

\* C18: the report's linesReduced is originalLines minus cleanedLines and is never
\* negative.
C18_LinesReducedNonNegative ==
    report # NoReport =>
        /\ report.linesReduced = report.originalLines - report.cleanedLines
        /\ report.linesReduced >= 0

\* The callee reads a property of the identifier console under a name written in the
\* text: after a dot, or as a string literal in brackets.
NamedConsoleAccess(n) ==
    /\ n.callee.type = "MemberExpression"
    /\ n.callee.object.type = "Identifier"
    /\ n.callee.object.name = "console"
    /\ \/ ~n.callee.computed /\ n.callee.property.type = "Identifier"
       \/ n.callee.computed /\ n.callee.property.type = "StringLiteral"
    /\ n.callee.property.name \in ConsoleMethods

\* C19: a call is flagged as a console statement only when its callee reads one of the
\* nine properties of the identifier console, and always when it does so with a dot; a
\* call on another base, window.console.log, and a computed access through a
\* variable, console[log], are not flagged.
C19_ConsoleClassification ==
    pc = "visited" =>
        /\ flagged = "console" => NamedConsoleAccess(node)
        /\ (NamedConsoleAccess(node) /\ ~node.callee.computed) => flagged = "console"

\* Every statement of the list lies inside the text, is not empty, and its text field
\* is the text between its offsets, lexeme for lexeme.
ValidOffsets(text, sts) ==
    \A i \in 1..Len(sts) :
        /\ 0 <= sts[i].start
        /\ sts[i].start < sts[i].end
        /\ sts[i].end <= Len(text)
        /\ Len(sts[i].text) = sts[i].end - sts[i].start
        /\ \A k \in 1..Len(sts[i].text) : sts[i].text[k] = text[sts[i].start + k]

\* C20: every statement returned by parseCode or by fallbackRegexParse on a text has
\* 0 <= start < end <= length of the text, and its text field is the text at
\* [start, end).
C20_OffsetsValid ==
    /\ pc = "parsed" =>
           /\ ValidOffsets(code, statements)
           /\ ValidOffsets(code, heap[statementsRef])
           /\ ValidOffsets(code, fallbackRegexParse(code))
    /\ pc = "rescanned" => ValidOffsets(result.cleanCode, debugStatements)

\* The traversal returned two statements or more, one of them extended over its
\* semicolon at the end of the text, and the patterns find statements too.
C20_Witness ==
    /\ pc = "parsed"
    /\ ~again
    /\ Parse(code).ok
    /\ Len(statements) >= 2
    /\ \E i \in 1..Len(statements) :
           /\ statements[i].end = Len(code)
           /\ code[Len(code)] = ";"
    /\ fallbackRegexParse(code) # <<>>

\* The offset of the first character of the line that holds offset p: one past the last
\* line terminator before p, or 0.
LineStartOf(text, p) ==
    IF \E i \in 1..p : text[i] = NL
    THEN CHOOSE i \in 1..p : text[i] = NL /\ \A j \in (i + 1)..p : text[j] # NL
    ELSE 0

\* Every statement of the list has the 1-based number of the line holding its start and
\* the 0-based distance of its start from that line's first character.
LinesAndColumns(text, sts) ==
    \A i \in 1..Len(sts) :
        /\ sts[i].line = 1 + CountNL(SubSeq(text, 1, sts[i].start))
        /\ sts[i].column = sts[i].start - LineStartOf(text, sts[i].start)

\* C21: for every statement either scanner returns, line is 1 plus the number of line
\* terminators before start, and column is the distance from the first character of
\* that line to start.
C21_LineAndColumn ==
    (pc = "parsed" /\ ~again) =>
        /\ LinesAndColumns(code, statements)
        /\ LinesAndColumns(code, fallbackRegexParse(code))

\* C21 witness: the traversal returned a statement that starts after a line terminator and
\* not at the first character of its line.
C21_Witness ==
    /\ pc = "parsed"
    /\ ~again
    /\ Parse(code).ok
    /\ \E i \in 1..Len(statements) : statements[i].line >= 2 /\ statements[i].column >= 1
    /\ \E i \in 1..Len(fallbackRegexParse(code)) : fallbackRegexParse(code)[i].line >= 2

\* The end of a statement without the white space at its end.
TrimmedEnd(statement) ==
    LET t == statement.text
        blankFrom == {k \in 0..Len(t) : \A j \in (k + 1)..Len(t) : t[j] \in Whitespace}
    IN  statement.start + (CHOOSE k \in blankFrom : \A m \in blankFrom : k <= m)

\* The text from offset p to the end of the line that holds it.
RestOfLine(text, p) ==
    LET ends == {k \in p..Len(text) : k = Len(text) \/ text[k + 1] = NL}
    IN  Substring(text, p, CHOOSE k \in ends : \A m \in ends : k <= m)

\* The statement is alone on its line: only white space lies between the first
\* character of the line and its start, and between its end and the end of the line.
AloneOnItsLine(text, statement) ==
    /\ IsBlank(Substring(text, LineStartOf(text, statement.start), statement.start))
    /\ IsBlank(RestOfLine(text, TrimmedEnd(statement)))

\* C22: previewChanges returns one entry per statement, ascending by line, each with the
\* action "Remove entire line" when its statement is alone on its line of the text and
\* "Remove statement" otherwise.
C22_PreviewActions ==
    pc = "previewed" =>
        /\ Len(preview) = Len(statements)
        /\ \A i \in 1..(Len(preview) - 1) : preview[i].line <= preview[i + 1].line
        /\ \A i \in 1..Len(preview) :
               /\ preview[i].text = statements[i].text
               /\ preview[i].line = statements[i].line
               /\ preview[i].action =
                      IF AloneOnItsLine(code, statements[i])
                      THEN "Remove entire line" ELSE "Remove statement"

\* The offset of the line terminator that ends the line holding offset p, or the length
\* of the text when that line is the last.
LineEndOf(text, p) ==
    LET ends == {k \in p..Len(text) : k = Len(text) \/ text[k + 1] = NL}
    IN  CHOOSE k \in ends : \A m \in ends : k <= m

\* The statement lies within one line, alone on it, and a line terminator ends the line.
AloneOnTerminatedLine(text, statement) ==
    /\ ~Includes(statement.text, NL)
    /\ AloneOnItsLine(text, statement)
    /\ LineEndOf(text, statement.start) < Len(text)

\* The line before the one holding offset p is blank.
PrecedingLineBlank(text, p) ==
    /\ LineStartOf(text, p) > 0
    /\ IsBlank(Substring(text, LineStartOf(text, LineStartOf(text, p) - 1),
                         LineStartOf(text, p) - 1))

\* The text without the line of the statement and that line's terminator, and without
\* the terminator of the line before when that line is blank.
WithoutItsLine(text, statement) ==
    Substring(text, 0, LineStartOf(text, statement.start)
                           - (IF PrecedingLineBlank(text, statement.start) THEN 1 ELSE 0))
        \o SubstringFrom(text, LineEndOf(text, statement.start) + 1)

\* C25: removeStatement on a statement alone on its line deletes the line with its
\* indentation and its line terminator and leaves every other line as it was, and when
\* the line before is blank it deletes that line's terminator too.
C25_EntireLineDeleted ==
    (pc \in {"removing", "done"} /\ next = 2 /\ ~again
        /\ AloneOnTerminatedLine(code, sortedStatements[1])) =>
            cleanCode = WithoutItsLine(code, sortedStatements[1])

\* Each statement starts where its node starts, and ends at the node's end or, when
\* white space and then a semicolon follow the node, right after that semicolon.
ExtensionsExact(text, found, sts) ==
    /\ Len(sts) = Len(found)
    /\ \A i \in 1..Len(sts) :
           LET gap == Substring(text, found[i].end, sts[i].end)
               semicolonNext == /\ SkipWs(text, found[i].end) < Len(text)
                                /\ text[SkipWs(text, found[i].end) + 1] = ";"
           IN  /\ sts[i].start = found[i].start
               /\ sts[i].end >= found[i].end
               /\ semicolonNext =>
                      /\ Len(gap) >= 1
                      /\ gap[Len(gap)] = ";"
                      /\ IsBlank(SubSeq(gap, 1, Len(gap) - 1))
               /\ ~semicolonNext => sts[i].end = found[i].end

\* C26: the structural scanner moves a statement's end past the text after its node only
\* when that text is optional white space and then a semicolon; the move covers that
\* white space and the one semicolon and nothing else, and without a semicolon the end
\* is the node's end.
C26_ExtensionExact ==
    (pc = "parsed" /\ ~again /\ scan.warning = "none") =>
        ExtensionsExact(code, Parse(code).found, statements)

\* C26 witness: the traversal returned a statement extended over white space and a
\* semicolon.
C26_Witness ==
    /\ pc = "parsed"
    /\ ~again
    /\ scan.warning = "none"
    /\ \E i \in 1..Len(statements) :
           /\ statements[i].text[Len(statements[i].text)] = ";"
           /\ statements[i].text[Len(statements[i].text) - 1] \in Whitespace

\* The preview entry of a statement of the scan: the sort by line keeps the statements'
\* order, so the entry has the statement's place in the list.
ActionOf(statement) ==
    LET i == CHOOSE k \in 1..Len(statements) : statements[k] = statement
    IN  preview[i].action

\* C29: the preview agrees with the removal: removeDebugStatements takes the whole line
\* of a statement, on the text as it is when the statement's turn comes, exactly when
\* the preview's action for that statement is "Remove entire line".
C29_PreviewAgreesWithRemoval ==
    (pc = "removing" /\ again) =>
        (analyzeStatementContext(cleanCode, sortedStatements[next]).isOnOwnLine
             <=> ActionOf(sortedStatements[next]) = "Remove entire line")

\* C30: a console statement that calls a method without a configuration flag
\* (console.table) is removed whatever the flags are and whatever its arguments hold.
C30_UnflaggedMethodsRemoved ==
    (Done /\ ~again) =>
        \A i \in 1..Len(statements) :
            (statements[i].type = "console" /\ CalledMethod(statements[i]) = "T") =>
                \E k \in 1..Len(result.removedStatements) :
                    result.removedStatements[k] = statements[i]

\* Nothing to remove in the text: no statement is scanned, or the configuration keeps
\* every one of them.
NothingToRemove(original, cfg) ==
    Len(filterStatementsByConfig(parseCode(original), cfg)) = 0

\* C24: a command that finds nothing to remove in the text it read applies no edit and
\* triggers no save: the document is the text it read.
C24_NothingToRemoveNoEdit ==
    (pc \in {"nothingFound", "nothingToClean", "cleaned", "confirm", "declined"}
     /\ NothingToRemove(readText, config))
        => /\ document = readText
           /\ edits = 0
           /\ saves = 0

C24_Witness ==
    /\ pc = "nothingToClean"
    /\ autoSave
    /\ invoked = "cleanCurrentFile"
    /\ Len(parseCode(readText)) > 0

\* C28: the replacement cleanupDebug applies after its dialog is the cleaned text of
\* the document as it is at that moment.
C28_EditFromCurrentText ==
    [][(pc = "confirm" /\ pc' = "cleaned")
        => document' = removeDebugStatements(document, parseCode(document), config).cleanCode]_vars

\* The elements of a sequence.
Range(s) == {s[i] : i \in 1..Len(s)}

\* No element twice.
NoDuplicates(s) == \A i, j \in 1..Len(s) : s[i] = s[j] => i = j

\* Something fails while the batch handles the file.
Fails(file) ==
    \/ file.behaviour \in {"open", "parse"}
    \/ file.behaviour = "clean" /\ file.statements > 0
    \/ file.behaviour = "edit" /\ file.removedCount > 0
    \/ file.behaviour = "save" /\ file.removedCount > 0 /\ autoSave

\* The loop is entered for every file, once and in order.
AllVisited == visited = [i \in 1..Len(files) |-> i]

\* The files handled so far that failed are the ones recorded, each once, and the
\* summary comes after the last file.
BatchRecordsFailures ==
    /\ NoDuplicates(visited)
    /\ NoDuplicates(errorDetails)
    /\ errors = Len(errorDetails)
    /\ \A k \in 1..(fileIndex - 1) : Fails(files[k]) <=> k \in Range(errorDetails)
    /\ (pc \in {"after", "returned"} /\ ~token) => AllVisited
    /\ shown = "summary" => AllVisited /\ pc = "returned"

BrokeOff == pc \in {"after", "returned"} /\ fileIndex <= Len(files)

\* C27: after the break on cancellation no file is visited, opened, edited or saved,
\* the warning is shown and not the summary; a file whose turn has begun is handled
\* to the end of its turn.
C27_CancellationBetweenFiles ==
    /\ [](BrokeOff => /\ token
                      /\ visited = [i \in 1..(fileIndex - 1) |-> i]
                      /\ shown # "summary"
                      /\ pc = "returned" => shown = "cancelled")
    /\ [][BrokeOff => UNCHANGED <<visited, openedFiles, editedFiles, savedFiles>>]_vars
    /\ BrokeOff ~> (shown = "cancelled")
    /\ \A k \in 1..MaxFiles :
        (pc \in {"opening", "editing", "saving"} /\ fileIndex = k) ~> (fileIndex = k + 1)

C27_Witness ==
    /\ pc = "returned"
    /\ shown = "cancelled"
    /\ fileIndex <= Len(files)
    /\ Len(editedFiles) >= 1

====
